---- MODULE Spec2Model ----
(***************************************************************************)
(* TRMNL Home Assistant integration: the per-device sliding-window rate    *)
(* limiter (rate_limiter.py), the client variants and their factory        *)
(* (clients/), and the service handlers that tie them together             *)
(* (services.py, __init__.py).                                             *)
(*                                                                         *)
(* Time is counted in clock ticks; one hour is TicksPerHour ticks.         *)
(* Optional[T] values are sequences of length <= 1: <<>> is None and       *)
(* <<x>> is the value x.                                                   *)
(***************************************************************************)
EXTENDS Integers, Sequences, FiniteSets, TLC

\* ---------------------------------------------------------------- bounds
TicksPerHour == 2
MaxClock == 3
MaxLimit == 2
MaxRecords == 2
MaxOptionLimit == 1
MaxHttp == 2
MaxProcs == 2
DevMaxClock == 1
RaceMaxRecords == 4

\* ------------------------------------------------------------- constants
Devices == {"d1", "d2"}
\* the devices whose limiters SpecLim drives
LimDevices == {"d1"}
Limits == 0..MaxLimit

None == <<>>
Some(x) == <<x>>

\* timedelta(hours=1)
Hour == TicksPerHour

\* max(0, x)
Max0(x) == IF x > 0 THEN x ELSE 0

\* min(self.request_times), for a non-empty list
MinOf(times) == CHOOSE t \in {times[i] : i \in 1..Len(times)} :
                    \A j \in 1..Len(times) : t <= times[j]

VARIABLES
    clock,      \* datetime.now()
    heap,       \* the RateLimiter objects allocated so far; an object's identity is its index
    limiters,   \* RateLimiterManager.limiters: device_id -> RateLimiter object
    ret,        \* the last limiter-level call and what it returned
    recorded,   \* history variable: per object, the time of every record_request() so far
    hassData,   \* hass.data[DOMAIN]: entry_id -> stored config
    options,    \* entry.options of each config entry
    entryType,  \* entry.data["implementation_type"] of each config entry
    registered, \* the entry whose handlers the service registry currently holds
    procs,      \* the service invocations whose handler is running
    last,       \* history variable: the invocation that ended last
    client,     \* a client object driven directly (client-level operations)
    cret,       \* the last client-level call and what it returned
    http        \* number of HTTP requests issued by the directly driven client

limVars == <<clock, heap, limiters, ret, recorded>>
dispVars == <<hassData, options, entryType, registered, procs, last>>
cliVars == <<client, cret, http>>
vars == <<clock, heap, limiters, ret, recorded, hassData, options,
          entryType, registered, procs, last, client, cret, http>>

\* ============================================================ RateLimiter

\* RateLimiter.__init__
NewLimiter(device_id, requests_per_hour, enabled) ==
    [device_id |-> device_id,
     requests_per_hour |-> requests_per_hour,
     enabled |-> enabled,
     request_times |-> <<>>,
     last_request_time |-> None]

\* [req_time for req_time in self.request_times if req_time > cutoff_time]
Prune(times, now) == SelectSeq(times, LAMBDA t : t > now - Hour)

\* can_make_request: the limiter after the call and the value returned
CanMakeRequestNoPrune(l, now) ==
    IF ~l.enabled THEN [lim |-> l, val |-> TRUE]
    ELSE [lim |-> l, val |-> Len(l.request_times) < l.requests_per_hour]
CanMakeRequestOffByOne(l, now) ==
    IF ~l.enabled THEN [lim |-> l, val |-> TRUE]
    ELSE LET kept == Prune(l.request_times, now)
         IN [lim |-> [l EXCEPT !.request_times = kept],
             val |-> Len(kept) <= l.requests_per_hour]
CanMakeRequestIgnoreEnabled(l, now) ==
    LET kept == Prune(l.request_times, now)
    IN [lim |-> [l EXCEPT !.request_times = kept],
        val |-> Len(kept) < l.requests_per_hour]
CanMakeRequestZeroUnlimited(l, now) ==
    IF ~l.enabled \/ l.requests_per_hour = 0 THEN [lim |-> l, val |-> TRUE]
    ELSE LET kept == Prune(l.request_times, now)
         IN [lim |-> [l EXCEPT !.request_times = kept],
             val |-> Len(kept) < l.requests_per_hour]
CanMakeRequestReserves(l, now) ==
    IF ~l.enabled THEN [lim |-> l, val |-> TRUE]
    ELSE LET kept == Prune(l.request_times, now)
         IN IF Len(kept) < l.requests_per_hour
            THEN [lim |-> [l EXCEPT !.request_times = Append(kept, now)],
                  val |-> TRUE]
            ELSE [lim |-> [l EXCEPT !.request_times = kept], val |-> FALSE]
CanMakeRequest(l, now) ==
    IF ~l.enabled THEN [lim |-> l, val |-> TRUE]
    ELSE LET kept == Prune(l.request_times, now)
         IN [lim |-> [l EXCEPT !.request_times = kept],
             val |-> Len(kept) < l.requests_per_hour]

\* record_request
RecordRequest(l, now) ==
    [l EXCEPT !.request_times = Append(@, now),
              !.last_request_time = Some(now)]

\* get_remaining_requests: the limiter after the call and the value returned
GetRemainingNoFloor(l, now) ==
    IF ~l.enabled THEN [lim |-> l, val |-> -1]
    ELSE LET kept == Prune(l.request_times, now)
         IN [lim |-> [l EXCEPT !.request_times = kept],
             val |-> l.requests_per_hour - Len(kept)]
GetRemainingBeforePrune(l, now) ==
    IF ~l.enabled THEN [lim |-> l, val |-> -1]
    ELSE [lim |-> [l EXCEPT !.request_times = Prune(l.request_times, now)],
          val |-> Max0(l.requests_per_hour - Len(l.request_times))]
GetRemainingRequests(l, now) ==
    IF ~l.enabled THEN [lim |-> l, val |-> -1]
    ELSE LET kept == Prune(l.request_times, now)
         IN [lim |-> [l EXCEPT !.request_times = kept],
             val |-> Max0(l.requests_per_hour - Len(kept))]

\* get_reset_time: no pruning, Optional[datetime]
GetResetTimeOldest(l) ==
    IF Len(l.request_times) = 0 THEN None
    ELSE Some(MinOf(l.request_times))
GetResetTime(l) ==
    IF Len(l.request_times) = 0 THEN None
    ELSE Some(MinOf(l.request_times) + Hour)

\* get_wait_time: now1 is the clock read inside can_make_request, now2 the one
\* read after get_reset_time
GetWaitTimeNoFloor(l, now1, now2) ==
    LET c == CanMakeRequest(l, now1)
        reset_time == GetResetTime(c.lim)
    IN IF c.val THEN [lim |-> c.lim, val |-> 0]
       ELSE IF reset_time # None
            THEN [lim |-> c.lim, val |-> reset_time[1] - now2]
            ELSE [lim |-> c.lim, val |-> 0]
GetWaitTime(l, now1, now2) ==
    LET c == CanMakeRequest(l, now1)
        reset_time == GetResetTime(c.lim)
    IN IF c.val THEN [lim |-> c.lim, val |-> 0]
       ELSE IF reset_time # None
            THEN [lim |-> c.lim, val |-> Max0(reset_time[1] - now2)]
            ELSE [lim |-> c.lim, val |-> 0]

\* ===================================================== RateLimiterManager

\* get_limiter: the heap and registry after the call and the object returned
\* (the branch that constructs and registers a new RateLimiter)
RegisterNew(h, reg, device_id, requests_per_hour, enabled) ==
    [heap |-> Append(h, NewLimiter(device_id, requests_per_hour, enabled)),
     reg |-> [d \in DOMAIN reg \cup {device_id} |->
                 IF d = device_id THEN Len(h) + 1 ELSE reg[d]],
     obj |-> Len(h) + 1]
GetLimiterApplyDefaults(h, reg, device_id, requests_per_hour, enabled) ==
    IF device_id \notin DOMAIN reg
    THEN RegisterNew(h, reg, device_id, requests_per_hour, enabled)
    ELSE [heap |-> [h EXCEPT ![reg[device_id]].requests_per_hour = requests_per_hour,
                             ![reg[device_id]].enabled = enabled],
          reg |-> reg,
          obj |-> reg[device_id]]
GetLimiterShared(h, reg, device_id, requests_per_hour, enabled) ==
    IF device_id \in DOMAIN reg
    THEN [heap |-> h, reg |-> reg, obj |-> reg[device_id]]
    ELSE IF Len(h) = 0
    THEN RegisterNew(h, reg, device_id, requests_per_hour, enabled)
    ELSE [heap |-> h,
          reg |-> [d \in DOMAIN reg \cup {device_id} |->
                      IF d = device_id THEN 1 ELSE reg[d]],
          obj |-> 1]
GetLimiter(h, reg, device_id, requests_per_hour, enabled) ==
    IF device_id \notin DOMAIN reg
    THEN RegisterNew(h, reg, device_id, requests_per_hour, enabled)
    ELSE [heap |-> h, reg |-> reg, obj |-> reg[device_id]]

\* update_limiter: requests_per_hour and enabled are Optional
UpdateLimiterTruthy(h, reg, device_id, requests_per_hour, enabled) ==
    IF device_id \in DOMAIN reg
    THEN LET o == reg[device_id]
             l1 == IF requests_per_hour # None /\ requests_per_hour # Some(0)
                   THEN [h[o] EXCEPT !.requests_per_hour = requests_per_hour[1]]
                   ELSE h[o]
             l2 == IF enabled # None /\ enabled # Some(FALSE)
                   THEN [l1 EXCEPT !.enabled = enabled[1]]
                   ELSE l1
         IN [h EXCEPT ![o] = l2]
    ELSE h
UpdateLimiterResetsOnEnable(h, reg, device_id, requests_per_hour, enabled) ==
    IF device_id \in DOMAIN reg
    THEN LET o == reg[device_id]
             l1 == IF requests_per_hour # None
                   THEN [h[o] EXCEPT !.requests_per_hour = requests_per_hour[1]]
                   ELSE h[o]
             l2 == IF enabled # None
                   THEN [l1 EXCEPT !.enabled = enabled[1],
                                   !.request_times = IF enabled[1] THEN <<>> ELSE @]
                   ELSE l1
         IN [h EXCEPT ![o] = l2]
    ELSE h
UpdateLimiter(h, reg, device_id, requests_per_hour, enabled) ==
    IF device_id \in DOMAIN reg
    THEN LET o == reg[device_id]
             l1 == IF requests_per_hour # None
                   THEN [h[o] EXCEPT !.requests_per_hour = requests_per_hour[1]]
                   ELSE h[o]
             l2 == IF enabled # None
                   THEN [l1 EXCEPT !.enabled = enabled[1]]
                   ELSE l1
         IN [h EXCEPT ![o] = l2]
    ELSE h

\* ======================================= limiter-level calls (any caller)

Objs == 1..Len(heap)
OptLimits == {None} \cup {Some(n) : n \in Limits}
OptBools == {None, Some(TRUE), Some(FALSE)}

\* The times recorded on object o so far
RecordedOn(o) == IF o > Len(recorded) THEN <<>> ELSE recorded[o]

\* The number of record_request() calls on object o with a time in (t - 1h, t]
RecordedInWindow(o, t) ==
    Cardinality({i \in 1..Len(RecordedOn(o)) :
                    /\ RecordedOn(o)[i] > t - Hour
                    /\ RecordedOn(o)[i] <= t})

\* The history variable after a record_request() on object o at time t
LogRecord(o, t) ==
    [i \in 1..(IF o > Len(recorded) THEN o ELSE Len(recorded)) |->
        IF i = o THEN Append(RecordedOn(i), t) ELSE RecordedOn(i)]

\* The number of record_request() calls so far, on all objects
RECURSIVE SumLen(_)
SumLen(ss) == IF Len(ss) = 0 THEN 0 ELSE Len(Head(ss)) + SumLen(Tail(ss))
NumRecorded == SumLen(recorded)

LGetLimiter(d, rph, en) ==
    LET g == GetLimiter(heap, limiters, d, rph, en)
    IN /\ heap' = g.heap
       /\ limiters' = g.reg
       /\ ret' = [op |-> "get_limiter", dev |-> d, rph |-> rph, en |-> en,
                  val |-> g.obj]
       /\ UNCHANGED <<clock, recorded>>
       /\ UNCHANGED dispVars
       /\ UNCHANGED cliVars

LCanMakeRequest(o) ==
    LET c == CanMakeRequest(heap[o], clock)
    IN /\ heap' = [heap EXCEPT ![o] = c.lim]
       /\ ret' = [op |-> "can_make_request", obj |-> o, val |-> c.val]
       /\ UNCHANGED <<clock, limiters, recorded>>
       /\ UNCHANGED dispVars
       /\ UNCHANGED cliVars

LRecordRequest(o) ==
    /\ heap' = [heap EXCEPT ![o] = RecordRequest(heap[o], clock)]
    /\ recorded' = LogRecord(o, clock)
    /\ ret' = [op |-> "record_request", obj |-> o]
    /\ UNCHANGED <<clock, limiters>>
    /\ UNCHANGED dispVars
    /\ UNCHANGED cliVars

LGetRemainingRequests(o) ==
    LET r == GetRemainingRequests(heap[o], clock)
    IN /\ heap' = [heap EXCEPT ![o] = r.lim]
       /\ ret' = [op |-> "get_remaining_requests", obj |-> o, val |-> r.val]
       /\ UNCHANGED <<clock, limiters, recorded>>
       /\ UNCHANGED dispVars
       /\ UNCHANGED cliVars

LGetResetTime(o) ==
    /\ ret' = [op |-> "get_reset_time", obj |-> o, val |-> GetResetTime(heap[o])]
    /\ UNCHANGED <<clock, heap, limiters, recorded>>
    /\ UNCHANGED dispVars
    /\ UNCHANGED cliVars

\* The clock may advance between the two readings of get_wait_time.
LGetWaitTime(o, now2) ==
    LET w == GetWaitTime(heap[o], clock, now2)
    IN /\ heap' = [heap EXCEPT ![o] = w.lim]
       /\ clock' = now2
       /\ ret' = [op |-> "get_wait_time", obj |-> o, val |-> w.val]
       /\ UNCHANGED <<limiters, recorded>>
       /\ UNCHANGED dispVars
       /\ UNCHANGED cliVars

LUpdateLimiter(d, rph, en) ==
    /\ heap' = UpdateLimiter(heap, limiters, d, rph, en)
    /\ ret' = [op |-> "update_limiter", dev |-> d]
    /\ UNCHANGED <<clock, limiters, recorded>>
    /\ UNCHANGED dispVars
    /\ UNCHANGED cliVars

\* Time passes.
Tick ==
    /\ clock < MaxClock
    /\ clock' = clock + 1
    /\ UNCHANGED <<heap, limiters, ret, recorded>>
    /\ UNCHANGED dispVars
    /\ UNCHANGED cliVars

Nows == {t \in {clock, clock + 1} : t <= MaxClock}

\* ------------------------------------------------------------ base state
NoProc == [pc |-> "idle"]

InitLim ==
    /\ clock = 0
    /\ heap = <<>>
    /\ limiters = <<>>
    /\ ret = [op |-> "none"]
    /\ recorded = <<>>

InitCli ==
    /\ client = None
    /\ cret = [op |-> "none", state |-> "returned"]
    /\ http = 0

InitIdle ==
    /\ hassData = <<>>
    /\ options = <<>>
    /\ entryType = <<>>
    /\ registered = None
    /\ procs = <<>>
    /\ last = NoProc

\* ---------------- SpecLim: the manager and its limiters, called in any order
InitL == InitLim /\ InitCli /\ InitIdle

NextLim ==
    \/ \E d \in LimDevices, rph \in Limits, en \in BOOLEAN : LGetLimiter(d, rph, en)
    \/ \E o \in Objs : LCanMakeRequest(o)
    \/ \E o \in Objs : NumRecorded < MaxRecords /\ LRecordRequest(o)
    \/ \E o \in Objs : LGetRemainingRequests(o)
    \/ \E o \in Objs : LGetResetTime(o)
    \/ \E o \in Objs, now2 \in Nows : LGetWaitTime(o, now2)
    \/ \E d \in LimDevices, rph \in OptLimits, en \in OptBools : LUpdateLimiter(d, rph, en)
    \/ Tick

SpecLim == InitL /\ [][NextLim]_vars

\* ------- SpecReenable: a limiter created disabled, recorded on only while it
\* is disabled, and enabled or disabled again through update_limiter
NextReenable ==
    \/ \E d \in LimDevices, rph \in Limits : LGetLimiter(d, rph, FALSE)
    \/ \E o \in Objs :
          ~heap[o].enabled /\ NumRecorded < MaxRecords /\ LRecordRequest(o)
    \/ \E o \in Objs : LCanMakeRequest(o)
    \/ \E o \in Objs : LGetRemainingRequests(o)
    \/ \E d \in LimDevices, en \in BOOLEAN : LUpdateLimiter(d, None, Some(en))
    \/ Tick

SpecReenable == InitL /\ [][NextReenable]_vars

\* ------- SpecSeq: one enabled limiter with a fixed limit, sequential callers
\* (record_request only directly after a can_make_request that returned True)
SeqNew(n) ==
    /\ Len(heap) = 0
    /\ LGetLimiter("d1", n, TRUE)

SeqRecordRequest(o) ==
    /\ ret.op = "can_make_request"
    /\ ret.obj = o
    /\ ret.val
    /\ LRecordRequest(o)

NextSeq ==
    \/ \E n \in Limits : SeqNew(n)
    \/ \E o \in Objs : LCanMakeRequest(o)
    \/ \E o \in Objs : SeqRecordRequest(o)
    \/ \E o \in Objs : LGetRemainingRequests(o)
    \/ \E o \in Objs : LGetResetTime(o)
    \/ \E o \in Objs, now2 \in Nows : LGetWaitTime(o, now2)
    \/ Tick

SpecSeq == InitL /\ [][NextSeq]_vars

\* ================================================================ clients

IMPL_STANDARD == "standard"
IMPL_TERMINUS == "terminus"
IMPL_GENERIC_BYOS == "generic_byos"
\* the known implementation types and one tag that is none of them
ImplTypes == {IMPL_STANDARD, IMPL_TERMINUS, IMPL_GENERIC_BYOS, "unknown"}

PushOps == {"send_image", "send_merge_variables"}
ClientOps == PushOps \cup {"get_device_status", "test_connection"}

\* What the remote end can do to a request in flight: answer with a status, a
\* content type and a body that parses as JSON or does not; fail in transport
\* (timeout, connection error: an Exception); or the awaiting task is cancelled
\* (CancelledError, a BaseException).
Statuses == {200, 201, 500}
Responses ==
    [kind : {"response"}, status : Statuses, json_ct : BOOLEAN, body_ok : BOOLEAN]
    \cup {[kind |-> "exception"], [kind |-> "cancelled"]}

\* StandardTRMNLClient.__init__ / BYOSClient.__init__
\* (kind is the class; TRMNLClientBase.__init__ stores the three arguments)
NewClientPresetUuid(kind, device_id, api_key, api_endpoint) ==
    [kind |-> kind, device_id |-> device_id, api_key |-> api_key,
     api_endpoint |-> api_endpoint, session |-> "none",
     plugin_uuid |-> Some("uuid")]
NewClient(kind, device_id, api_key, api_endpoint) ==
    [kind |-> kind, device_id |-> device_id, api_key |-> api_key,
     api_endpoint |-> api_endpoint, session |-> "none", plugin_uuid |-> None]

\* the default of StandardTRMNLClient.__init__'s api_endpoint parameter
DefaultEndpoint == "https://usetrmnl.com"

\* TRMNLClientFactory.create_client: Optional[client]
CreateClientDefaultByos(implementation_type, device_id, api_key, api_endpoint) ==
    IF implementation_type = IMPL_STANDARD
    THEN Some(NewClient(IMPL_STANDARD, device_id, api_key, api_endpoint))
    ELSE IF implementation_type = IMPL_TERMINUS
    THEN Some(NewClient(IMPL_TERMINUS, device_id, api_key, api_endpoint))
    ELSE Some(NewClient(IMPL_GENERIC_BYOS, device_id, api_key, api_endpoint))
CreateClientDefaultEndpoint(implementation_type, device_id, api_key, api_endpoint) ==
    IF implementation_type = IMPL_STANDARD
    THEN Some(NewClient(IMPL_STANDARD, device_id, api_key, DefaultEndpoint))
    ELSE IF implementation_type = IMPL_TERMINUS
    THEN Some(NewClient(IMPL_TERMINUS, device_id, api_key, api_endpoint))
    ELSE IF implementation_type = IMPL_GENERIC_BYOS
    THEN Some(NewClient(IMPL_GENERIC_BYOS, device_id, api_key, api_endpoint))
    ELSE None
CreateClient(implementation_type, device_id, api_key, api_endpoint) ==
    IF implementation_type = IMPL_STANDARD
    THEN Some(NewClient(IMPL_STANDARD, device_id, api_key, api_endpoint))
    ELSE IF implementation_type = IMPL_TERMINUS
    THEN Some(NewClient(IMPL_TERMINUS, device_id, api_key, api_endpoint))
    ELSE IF implementation_type = IMPL_GENERIC_BYOS
    THEN Some(NewClient(IMPL_GENERIC_BYOS, device_id, api_key, api_endpoint))
    ELSE None

\* _get_session: a new session when there is none or it is closed
GetSession(c) == [c EXCEPT !.session = "open"]

\* close
CloseLeavesOpen(c) == c
Close(c) == IF c.session = "open" THEN [c EXCEPT !.session = "closed"] ELSE c

\* set_plugin_uuid
SetPluginUuid(c, uuid) == [c EXCEPT !.plugin_uuid = Some(uuid)]

\* The dict (or bool, as success) an operation returns, or the exception it lets through
Result(success, status, error) ==
    [raised |-> FALSE, success |-> success, status |-> status, error |-> error]
Raises == [raised |-> TRUE, success |-> FALSE, status |-> "", error |-> "CancelledError"]

\* An operation up to its HTTP request: the client after it, whether a request
\* was issued, and the result when it returns without one.
BeginNoPrecondition(c, op) ==
    [client |-> GetSession(c), issued |-> TRUE, result |-> None]
Begin(c, op) ==
    IF c.kind = IMPL_STANDARD /\ op \in PushOps /\ c.plugin_uuid = None
    THEN [client |-> c, issued |-> FALSE,
          result |-> Some(Result(FALSE, "", "precondition"))]
    ELSE [client |-> GetSession(c), issued |-> TRUE, result |-> None]

\* resp.status == 200 (hosted), resp.status in (200, 201) (self-hosted)
StatusOk(kind, status) ==
    IF kind = IMPL_STANDARD THEN status = 200 ELSE status \in {200, 201}

\* await resp.json() raises: on a body that does not parse, and (aiohttp's
\* content type check) on a response that is not application/json
JsonRaises(resp) == ~resp.json_ct \/ ~resp.body_ok

\* send_image / send_merge_variables from the response on
PushResultNoCatch(kind, resp) ==
    IF resp.kind \in {"cancelled", "exception"} THEN Raises
    ELSE IF kind = IMPL_STANDARD
    THEN IF JsonRaises(resp) THEN Raises
         ELSE IF StatusOk(kind, resp.status) THEN Result(TRUE, "", "")
         ELSE Result(FALSE, "", "api_error")
    ELSE IF resp.json_ct /\ ~resp.body_ok THEN Raises
         ELSE IF StatusOk(kind, resp.status) THEN Result(TRUE, "", "")
         ELSE Result(FALSE, "", "api_error")
PushResult(kind, resp) ==
    IF resp.kind = "cancelled" THEN Raises
    ELSE IF resp.kind = "exception" THEN Result(FALSE, "", "exception")
    ELSE IF kind = IMPL_STANDARD
    THEN IF JsonRaises(resp) THEN Result(FALSE, "", "exception")
         ELSE IF StatusOk(kind, resp.status) THEN Result(TRUE, "", "")
         ELSE Result(FALSE, "", "api_error")
    ELSE IF resp.json_ct /\ ~resp.body_ok THEN Result(FALSE, "", "exception")
         ELSE IF StatusOk(kind, resp.status) THEN Result(TRUE, "", "")
         ELSE Result(FALSE, "", "api_error")

\* get_device_status from the response on
StatusResultOfflineOnError(kind, resp) ==
    IF resp.kind = "cancelled" THEN Raises
    ELSE IF resp.kind = "exception" THEN Result(FALSE, "offline", "exception")
    ELSE IF StatusOk(kind, resp.status)
    THEN IF JsonRaises(resp) THEN Result(FALSE, "offline", "exception")
         ELSE Result(TRUE, "online", "")
    ELSE Result(FALSE, "offline", "http_status")
StatusResult(kind, resp) ==
    IF resp.kind = "cancelled" THEN Raises
    ELSE IF resp.kind = "exception" THEN Result(FALSE, "error", "exception")
    ELSE IF StatusOk(kind, resp.status)
    THEN IF JsonRaises(resp) THEN Result(FALSE, "error", "exception")
         ELSE Result(TRUE, "online", "")
    ELSE Result(FALSE, "offline", "http_status")

\* test_connection from the response on (success is the bool returned)
TestResult(kind, resp) ==
    IF resp.kind = "cancelled" THEN Raises
    ELSE IF resp.kind = "exception" THEN Result(FALSE, "", "exception")
    ELSE IF StatusOk(kind, resp.status) THEN Result(TRUE, "", "")
    ELSE Result(FALSE, "", "http_status")

Complete(kind, op, resp) ==
    IF op \in PushOps THEN PushResult(kind, resp)
    ELSE IF op = "get_device_status" THEN StatusResult(kind, resp)
    ELSE TestResult(kind, resp)

\* ------------------------------ SpecCli: one client object, called directly

\* the arguments create_client is called with directly
ApiKeys == {"", "key"}
ApiEndpoints == {DefaultEndpoint, "https://byos.local"}

CCreateClient(t, device_id, api_key, api_endpoint) ==
    /\ cret.state # "pending"
    /\ client' = CreateClient(t, device_id, api_key, api_endpoint)
    /\ http' = 0
    /\ cret' = [op |-> "create_client", state |-> "returned", type |-> t,
                device_id |-> device_id, api_key |-> api_key,
                api_endpoint |-> api_endpoint]
    /\ UNCHANGED limVars
    /\ UNCHANGED dispVars

CSetPluginUuid ==
    /\ client # None
    /\ client[1].kind = IMPL_STANDARD
    /\ cret.state # "pending"
    /\ client' = Some(SetPluginUuid(client[1], "uuid"))
    /\ cret' = [op |-> "set_plugin_uuid", state |-> "returned"]
    /\ UNCHANGED http
    /\ UNCHANGED limVars
    /\ UNCHANGED dispVars

CBegin(op) ==
    /\ client # None
    /\ cret.state # "pending"
    /\ http < MaxHttp
    /\ LET b == Begin(client[1], op)
       IN /\ client' = Some(b.client)
          /\ http' = IF b.issued THEN http + 1 ELSE http
          /\ cret' = IF b.issued
                     THEN [op |-> op, state |-> "pending", before |-> client[1],
                           http0 |-> http]
                     ELSE [op |-> op, state |-> "returned", before |-> client[1],
                           http0 |-> http, issued |-> FALSE, val |-> b.result[1]]
    /\ UNCHANGED limVars
    /\ UNCHANGED dispVars

CComplete(resp) ==
    /\ cret.state = "pending"
    /\ cret' = [op |-> cret.op, state |-> "returned", before |-> cret.before,
                http0 |-> cret.http0, issued |-> TRUE, resp |-> resp,
                val |-> Complete(client[1].kind, cret.op, resp)]
    /\ UNCHANGED <<client, http>>
    /\ UNCHANGED limVars
    /\ UNCHANGED dispVars

CClose ==
    /\ client # None
    /\ cret.state # "pending"
    /\ client' = Some(Close(client[1]))
    /\ cret' = [op |-> "close", state |-> "returned"]
    /\ UNCHANGED http
    /\ UNCHANGED limVars
    /\ UNCHANGED dispVars

NextCli ==
    \/ \E t \in ImplTypes, d \in LimDevices, k \in ApiKeys, ep \in ApiEndpoints :
          CCreateClient(t, d, k, ep)
    \/ CSetPluginUuid
    \/ \E op \in ClientOps : CBegin(op)
    \/ \E resp \in Responses : CComplete(resp)
    \/ CClose

SpecCli == InitL /\ [][NextCli]_vars

\* ======================================================= service handlers

Entries == {"e1", "e2"}
\* entry.data["device_id"] of each config entry
EntryDevice == [e \in Entries |-> IF e = "e1" THEN "d1" ELSE "d2"]
\* entry.data["api_key"], entry.data["api_endpoint"]
EntryApiKey == [e \in Entries |-> "key"]
EntryApiEndpoint == [e \in Entries |-> "https://byos.local"]
\* entry.data["implementation_type"]: any tag for e1, a self-hosted server for e2
EntryTypes == {[e \in Entries |-> IF e = "e1" THEN t ELSE IMPL_GENERIC_BYOS] :
                  t \in ImplTypes}
\* the entries that Spec sets up
MainEntries == {"e1"}
Procs == 1..MaxProcs
\* the values the options form is submitted with
OptionLimits == 0..MaxOptionLimit

\* entry.options.get("rate_limit_requests_per_hour", 12)
DefaultRateLimit == 12
OptRateLimit(e) ==
    IF options[e] = None THEN DefaultRateLimit
    ELSE options[e][1].rate_limit_requests_per_hour
\* entry.options.get("enable_rate_limiting", True)
OptEnableRateLimiting(e) ==
    IF options[e] = None THEN TRUE ELSE options[e][1].enable_rate_limiting

\* async_setup_entry: stores the entry's config, then async_setup_services
\* registers this entry's handlers under the two service names
SetupEntryKeepFirst(e) ==
    /\ e \notin DOMAIN hassData
    /\ hassData' = [x \in DOMAIN hassData \cup {e} |->
                       IF x = e
                       THEN [device_id |-> EntryDevice[e],
                             implementation_type |-> entryType[e],
                             api_key |-> EntryApiKey[e],
                             api_endpoint |-> EntryApiEndpoint[e]]
                       ELSE hassData[x]]
    /\ registered' = IF registered = None THEN Some(e) ELSE registered
    /\ UNCHANGED <<options, entryType, procs, last>>
    /\ UNCHANGED limVars
    /\ UNCHANGED cliVars
SetupEntry(e) ==
    /\ e \notin DOMAIN hassData
    /\ hassData' = [x \in DOMAIN hassData \cup {e} |->
                       IF x = e
                       THEN [device_id |-> EntryDevice[e],
                             implementation_type |-> entryType[e],
                             api_key |-> EntryApiKey[e],
                             api_endpoint |-> EntryApiEndpoint[e]]
                       ELSE hassData[x]]
    /\ registered' = Some(e)
    /\ UNCHANGED <<options, entryType, procs, last>>
    /\ UNCHANGED limVars
    /\ UNCHANGED cliVars

\* async_unload_entry: hass.data[DOMAIN].pop(entry.entry_id)
UnloadEntryDropsLimiter(e) ==
    /\ e \in DOMAIN hassData
    /\ hassData' = [x \in DOMAIN hassData \ {e} |-> hassData[x]]
    /\ limiters' = [d \in DOMAIN limiters \ {hassData[e].device_id} |-> limiters[d]]
    /\ UNCHANGED <<options, entryType, registered, procs, last>>
    /\ UNCHANGED <<clock, heap, ret, recorded>>
    /\ UNCHANGED cliVars
UnloadEntry(e) ==
    /\ e \in DOMAIN hassData
    /\ hassData' = [x \in DOMAIN hassData \ {e} |-> hassData[x]]
    /\ UNCHANGED <<options, entryType, registered, procs, last>>
    /\ UNCHANGED limVars
    /\ UNCHANGED cliVars

\* TRMNLOptionsFlow.async_step_init: the submitted form becomes entry.options
OptionsFlow(e, rate_limit, enable) ==
    /\ options' = [options EXCEPT ![e] =
                      Some([rate_limit_requests_per_hour |-> rate_limit,
                            enable_rate_limiting |-> enable])]
    /\ options' # options
    /\ UNCHANGED <<hassData, entryType, registered, procs, last>>
    /\ UNCHANGED limVars
    /\ UNCHANGED cliVars

\* An invocation that has ended with the given outcome
Ended(pr, outcome) ==
    [pc |-> "ended", dev |-> pr.dev, entry |-> pr.entry, lim |-> pr.lim,
     client |-> pr.client, outcome |-> outcome, wait |-> pr.wait,
     nhttp |-> pr.nhttp, nrec |-> pr.nrec]

\* The handler from the result of the client operation on: record_request and
\* log_status (which prunes through get_remaining_requests) on success, the
\* error otherwise.
AfterSendAlwaysRecord(l, result, now) ==
    IF result.raised
    THEN [lim |-> l, outcome |-> "cancelled", rec |-> FALSE]
    ELSE [lim |-> GetRemainingRequests(RecordRequest(l, now), now).lim,
          outcome |-> IF result.success THEN "ok" ELSE "send_failed",
          rec |-> TRUE]
AfterSendRecordOnCancel(l, result, now) ==
    IF result.raised
    THEN [lim |-> GetRemainingRequests(RecordRequest(l, now), now).lim,
          outcome |-> "cancelled", rec |-> TRUE]
    ELSE IF ~result.success
    THEN [lim |-> l, outcome |-> "send_failed", rec |-> FALSE]
    ELSE [lim |-> GetRemainingRequests(RecordRequest(l, now), now).lim,
          outcome |-> "ok", rec |-> TRUE]
AfterSendRecordTwice(l, result, now) ==
    IF result.raised
    THEN [lim |-> l, outcome |-> "cancelled", rec |-> FALSE]
    ELSE IF ~result.success
    THEN [lim |-> l, outcome |-> "send_failed", rec |-> FALSE]
    ELSE [lim |-> GetRemainingRequests(
                      RecordRequest(RecordRequest(l, now), now), now).lim,
          outcome |-> "ok", rec |-> TRUE]
AfterSend(l, result, now) ==
    IF result.raised
    THEN [lim |-> l, outcome |-> "cancelled", rec |-> FALSE]
    ELSE IF ~result.success
    THEN [lim |-> l, outcome |-> "send_failed", rec |-> FALSE]
    ELSE [lim |-> GetRemainingRequests(RecordRequest(l, now), now).lim,
          outcome |-> "ok", rec |-> TRUE]

\* A handler invocation at its entry: nothing looked up, constructed or sent
NewInvocation(svc, dev) ==
    [pc |-> "idle", svc |-> svc, dev |-> dev, entry |-> registered[1], lim |-> 0,
     client |-> None, outcome |-> "none", wait |-> 0, nhttp |-> 0, nrec |-> 0]

\* The handler from the constructed client c to the first point where it waits
\* for the network (or to its end, when the operation returns without a
\* request). h1 is the heap, l the admitted limiter, pl the invocation so far.
StartSend(svc, pl, h1, reg, l, c) ==
    LET b == Begin(c, svc)
    IN IF b.issued
       THEN [heap |-> h1, reg |-> reg, now |-> clock, rec |-> FALSE,
             proc |-> [pl EXCEPT !.pc = "awaiting",
                                 !.client = Some(b.client),
                                 !.nhttp = 1]]
       ELSE
       LET a == AfterSend(l, b.result[1], clock)
       IN [heap |-> [h1 EXCEPT ![pl.lim] = a.lim], reg |-> reg,
           now |-> clock, rec |-> a.rec,
           proc |-> Ended([pl EXCEPT
                              !.client = Some(Close(b.client)),
                              !.nrec = IF a.rec THEN 1 ELSE 0],
                          a.outcome)]

\* The handler from the rate limit check on, for a resolved device config:
\* get_limiter with the entry's options, can_make_request, then either the
\* rate limit error with get_wait_time, or create_client and the operation.
\* nowW is the clock as get_wait_time reads it.
StartResolvedClientFirst(svc, dev, nowW, pr) ==
    LET e == registered[1]
        made == CreateClient(hassData[e].implementation_type, dev,
                             hassData[e].api_key, hassData[e].api_endpoint)
        g == GetLimiter(heap, limiters, dev, OptRateLimit(e),
                        OptEnableRateLimiting(e))
        c == CanMakeRequest(g.heap[g.obj], clock)
        pl == [pr EXCEPT !.lim = g.obj]
        h1 == [g.heap EXCEPT ![g.obj] = c.lim]
    IN IF made = None
       THEN [heap |-> heap, reg |-> limiters, now |-> clock, rec |-> FALSE,
             proc |-> Ended(pr, "no_client")]
       ELSE IF ~c.val
       THEN LET w == GetWaitTime(c.lim, nowW, nowW)
            IN [heap |-> [g.heap EXCEPT ![g.obj] = w.lim], reg |-> g.reg,
                now |-> nowW, rec |-> FALSE,
                proc |-> Ended([pl EXCEPT !.wait = w.val,
                                          !.client = Some(Close(made[1]))],
                               "rate_limited")]
       ELSE StartSend(svc, pl, h1, g.reg, c.lim, made[1])
StartResolved(svc, dev, nowW, pr) ==
    LET e == registered[1]
        g == GetLimiter(heap, limiters, dev, OptRateLimit(e),
                        OptEnableRateLimiting(e))
        c == CanMakeRequest(g.heap[g.obj], clock)
        pl == [pr EXCEPT !.lim = g.obj]
    IN IF ~c.val
       THEN LET w == GetWaitTime(c.lim, nowW, nowW)
            IN [heap |-> [g.heap EXCEPT ![g.obj] = w.lim], reg |-> g.reg,
                now |-> nowW, rec |-> FALSE,
                proc |-> Ended([pl EXCEPT !.wait = w.val], "rate_limited")]
       ELSE
       LET h1 == [g.heap EXCEPT ![g.obj] = c.lim]
           made == CreateClient(hassData[e].implementation_type, dev,
                             hassData[e].api_key, hassData[e].api_endpoint)
       IN IF made = None
          THEN [heap |-> h1, reg |-> g.reg, now |-> clock, rec |-> FALSE,
                proc |-> Ended(pl, "no_client")]
          ELSE StartSend(svc, pl, h1, g.reg, c.lim, made[1])

\* handle_send_image / handle_send_merge_variables up to the first point where
\* the handler waits for the network: the heap, the registry, the invocation
\* and the clock after it.
StartLimiterFirst(svc, dev, nowW) ==
    LET e == registered[1]
        pr == NewInvocation(svc, dev)
        g == GetLimiter(heap, limiters, dev, OptRateLimit(e),
                        OptEnableRateLimiting(e))
    IN IF e \notin DOMAIN hassData
       THEN [heap |-> g.heap, reg |-> g.reg, now |-> clock, rec |-> FALSE,
             proc |-> Ended(pr, "not_found")]
       ELSE IF hassData[e].device_id # dev
       THEN [heap |-> g.heap, reg |-> g.reg, now |-> clock, rec |-> FALSE,
             proc |-> Ended(pr, "mismatch")]
       ELSE StartResolved(svc, dev, nowW, pr)
Start(svc, dev, nowW) ==
    LET e == registered[1]
        pr == NewInvocation(svc, dev)
    IN IF e \notin DOMAIN hassData
       THEN [heap |-> heap, reg |-> limiters, now |-> clock, rec |-> FALSE,
             proc |-> Ended(pr, "not_found")]
       ELSE IF hassData[e].device_id # dev
       THEN [heap |-> heap, reg |-> limiters, now |-> clock, rec |-> FALSE,
             proc |-> Ended(pr, "mismatch")]
       ELSE StartResolved(svc, dev, nowW, pr)

\* The invocations whose remote call is in flight
Awaiting == {q \in Procs : procs[q].pc = "awaiting"}

\* A service call arrives and its handler runs up to its first wait; an
\* invocation that ends there leaves its summary in last. Invocations are
\* anonymous: a new one takes the lowest free slot.
InvokeStep(p, svc, dev, nowW) ==
    /\ registered # None
    /\ procs[p].pc = "idle"
    /\ \A q \in Procs : q < p => procs[q].pc # "idle"
    /\ LET r == Start(svc, dev, nowW)
       IN /\ heap' = r.heap
          /\ limiters' = r.reg
          /\ clock' = r.now
          /\ recorded' = IF r.rec THEN LogRecord(r.proc.lim, clock) ELSE recorded
          /\ IF r.proc.pc = "ended"
             THEN /\ last' = r.proc
                  /\ UNCHANGED procs
             ELSE /\ procs' = [procs EXCEPT ![p] = r.proc]
                  /\ UNCHANGED last
    /\ UNCHANGED <<ret, hassData, options, entryType, registered>>
    /\ UNCHANGED cliVars

\* ... while the invocations admitted so far stay within MaxRecords
Invoke(p, svc, dev, nowW) ==
    /\ NumRecorded + Cardinality(Awaiting) < MaxRecords
    /\ InvokeStep(p, svc, dev, nowW)

\* The remote call of a waiting invocation ends; the handler runs to its end
\* (the finally clause closes the client).
Respond(p, resp) ==
    /\ procs[p].pc = "awaiting"
    /\ LET pr == procs[p]
           result == Complete(pr.client[1].kind, pr.svc, resp)
           a == AfterSend(heap[pr.lim], result, clock)
       IN /\ heap' = [heap EXCEPT ![pr.lim] = a.lim]
          /\ recorded' = IF a.rec THEN LogRecord(pr.lim, clock) ELSE recorded
          /\ last' = Ended([pr EXCEPT !.client = Some(Close(pr.client[1])),
                                      !.nrec = IF a.rec THEN 1 ELSE 0],
                           a.outcome)
          /\ procs' = [procs EXCEPT ![p] = NoProc]
    /\ UNCHANGED <<clock, limiters, ret>>
    /\ UNCHANGED <<hassData, options, entryType, registered>>
    /\ UNCHANGED cliVars

\* Config entries exist, none is set up, no invocation has started.
Init ==
    /\ InitLim
    /\ InitCli
    /\ hassData = <<>>
    /\ options = [e \in Entries |-> None]
    /\ entryType \in EntryTypes
    /\ registered = None
    /\ procs = [p \in Procs |-> NoProc]
    /\ last = NoProc

Next ==
    \/ \E e \in MainEntries : SetupEntry(e)
    \/ \E e \in MainEntries : UnloadEntry(e)
    \/ \E e \in MainEntries, n \in OptionLimits, en \in BOOLEAN : OptionsFlow(e, n, en)
    \/ \E p \in Procs, svc \in PushOps, dev \in Devices, nowW \in Nows :
          Invoke(p, svc, dev, nowW)
    \/ \E p \in Procs, resp \in Responses : Respond(p, resp)
    \/ Tick

Spec == Init /\ [][Next]_vars

\* ---- SpecDev: two devices; their limiters driven directly and through the
\* handlers of two self-hosted entries, in any interleaving
InitDev ==
    /\ InitLim
    /\ InitCli
    /\ hassData = <<>>
    /\ options = [e \in Entries |-> None]
    /\ entryType = [e \in Entries |-> IMPL_GENERIC_BYOS]
    /\ registered = None
    /\ procs = [p \in Procs |-> NoProc]
    /\ last = NoProc

\* the answers and the update_limiter calls that SpecDev draws from
DevResponses ==
    {[kind |-> "response", status |-> 200, json_ct |-> TRUE, body_ok |-> TRUE],
     [kind |-> "response", status |-> 500, json_ct |-> TRUE, body_ok |-> TRUE],
     [kind |-> "cancelled"]}
DevUpdates ==
    {<<Some(MaxLimit), None>>, <<None, Some(FALSE)>>, <<None, Some(TRUE)>>}

NextDev ==
    \/ \E d \in Devices, u \in DevUpdates : LUpdateLimiter(d, u[1], u[2])
    \/ \E o \in Objs : LCanMakeRequest(o)
    \/ \E o \in Objs : NumRecorded < MaxRecords /\ LRecordRequest(o)
    \/ \E o \in Objs : LGetRemainingRequests(o)
    \/ \E e \in Entries : SetupEntry(e)
    \/ \E p \in Procs, dev \in Devices, nowW \in Nows :
          Invoke(p, "send_image", dev, nowW)
    \/ \E p \in Procs, resp \in DevResponses : Respond(p, resp)
    \/ clock < DevMaxClock /\ Tick

SpecDev == InitDev /\ [][NextDev]_vars

\* ---- SpecRace: one self-hosted device whose entry's options hold a fixed
\* limit with rate limiting enabled; up to MaxProcs invocations in flight
InitRace ==
    /\ InitLim
    /\ InitCli
    /\ hassData = <<>>
    /\ options \in {[e \in Entries |->
                        Some([rate_limit_requests_per_hour |-> n,
                              enable_rate_limiting |-> TRUE])] :
                     n \in Limits}
    /\ entryType = [e \in Entries |-> IMPL_GENERIC_BYOS]
    /\ registered = None
    /\ procs = [p \in Procs |-> NoProc]
    /\ last = NoProc

NextRace ==
    \/ \E e \in MainEntries : SetupEntry(e)
    \/ \E p \in Procs, nowW \in Nows :
          /\ NumRecorded + Cardinality(Awaiting) < RaceMaxRecords
          /\ InvokeStep(p, "send_image", EntryDevice["e1"], nowW)
    \/ \E p \in Procs, resp \in DevResponses : Respond(p, resp)
    \/ Tick

SpecRace == InitRace /\ [][NextRace]_vars

\* ================================================================ claims

\* C1: for one enabled limiter with a fixed limit N and sequential callers, the
\* number of recorded timestamps in any trailing one-hour window (t - 1h, t],
\* t up to now, never exceeds N, and can_make_request() returns False whenever
\* N recorded timestamps lie within the last hour.
C1_QuotaNeverExceeded ==
    \A o \in Objs :
        heap[o].enabled =>
            /\ \A t \in 0..clock : RecordedInWindow(o, t) <= heap[o].requests_per_hour
            /\ RecordedInWindow(o, clock) >= heap[o].requests_per_hour
                  => ~CanMakeRequest(heap[o], clock).val

\* The (N+1)-th attempt within the window was refused.
C1_Witness ==
    /\ ret.op = "can_make_request"
    /\ ~ret.val
    /\ heap[ret.obj].requests_per_hour >= 1
    /\ RecordedInWindow(ret.obj, clock) = heap[ret.obj].requests_per_hour

\* C4: an enabled limiter with limit N >= 1 that holds exactly N timestamps
\* refuses while the clock is less than one hour past the oldest of them and
\* admits again once the clock is more than one hour past the oldest one,
\* wherever in the hour that timestamp lies.
C4_SlidingWindowReopens ==
    \A o \in Objs :
        LET l == heap[o]
        IN (/\ l.enabled
            /\ l.requests_per_hour >= 1
            /\ Len(l.request_times) = l.requests_per_hour)
           => /\ clock > MinOf(l.request_times) + Hour
                    => CanMakeRequest(l, clock).val
              /\ clock < MinOf(l.request_times) + Hour
                    => ~CanMakeRequest(l, clock).val

\* A limiter that had used up its quota admitted again, more than one hour
\* after its first record and with no further record in between.
C4_Witness ==
    /\ ret.op = "can_make_request"
    /\ ret.val
    /\ heap[ret.obj].requests_per_hour >= 1
    /\ Len(RecordedOn(ret.obj)) = heap[ret.obj].requests_per_hour
    /\ clock > RecordedOn(ret.obj)[1] + Hour

\* C5: a disabled limiter admits and reports a wait of 0 in every reachable
\* state, whatever its history holds.
C5_DisabledAlwaysAdmits ==
    \A o \in Objs :
        ~heap[o].enabled =>
            /\ CanMakeRequest(heap[o], clock).val
            /\ \A now2 \in Nows : GetWaitTime(heap[o], clock, now2).val = 0

\* get_wait_time() returned on a disabled limiter whose history holds at
\* least limit timestamps of the last hour.
C5_Witness ==
    /\ ret.op = "get_wait_time"
    /\ ret.val = 0
    /\ ~heap[ret.obj].enabled
    /\ heap[ret.obj].requests_per_hour >= 1
    /\ Len(Prune(heap[ret.obj].request_times, clock)) >= heap[ret.obj].requests_per_hour

\* C6 as stated: on an enabled limiter get_remaining_requests() returns r with
\* 0 <= r <= limit and r + |history after pruning| = limit.
C6_RemainingPlusHistoryIsLimit ==
    (ret.op = "get_remaining_requests" /\ heap[ret.obj].enabled) =>
        /\ 0 <= ret.val
        /\ ret.val <= heap[ret.obj].requests_per_hour
        /\ ret.val + Len(heap[ret.obj].request_times) = heap[ret.obj].requests_per_hour

\* C6 amended: on an enabled limiter with limit >= 0, get_remaining_requests()
\* returns r = max(0, limit - |history after pruning|): 0 <= r <= limit, and
\* r + |history| = limit whenever the history holds at most limit entries.
C6_RemainingIsFlooredDifference ==
    (ret.op = "get_remaining_requests" /\ heap[ret.obj].enabled) =>
        LET lim == heap[ret.obj].requests_per_hour
            n == Len(heap[ret.obj].request_times)
        IN /\ 0 <= ret.val
           /\ ret.val <= lim
           /\ n <= lim => ret.val + n = lim
           /\ n > lim => ret.val = 0

\* get_remaining_requests() returned 0 on a history longer than the limit.
C6_Witness ==
    /\ ret.op = "get_remaining_requests"
    /\ heap[ret.obj].enabled
    /\ ret.val = 0
    /\ Len(heap[ret.obj].request_times) > heap[ret.obj].requests_per_hour
    /\ heap[ret.obj].requests_per_hour >= 1

\* C7: get_limiter on a registered id returns the registered object and
\* changes neither the registry nor any limiter (limit, enabled, history),
\* whatever defaults are passed.
C7_GetLimiterIdempotent ==
    [][\A d \in Devices, rph \in Limits, en \in BOOLEAN :
          (d \in DOMAIN limiters /\ LGetLimiter(d, rph, en)) =>
              /\ ret'.val = limiters[d]
              /\ heap' = heap
              /\ limiters' = limiters]_vars

\* get_limiter was called on a registered id, with defaults that differ from
\* the limiter's settings, and the limiter has a history.
C7_Witness ==
    /\ ret.op = "get_limiter"
    /\ heap[ret.val].requests_per_hour # ret.rph
    /\ heap[ret.val].enabled # ret.en
    /\ Len(heap[ret.val].request_times) > 0

\* C2 as stated: check-then-record is atomic among the invocations for one
\* device, so under every interleaving the number of requests recorded on an
\* enabled limiter within the trailing hour never exceeds its limit.
C2_CheckThenRecordAtomic ==
    \A o \in Objs :
        heap[o].enabled => RecordedInWindow(o, clock) <= heap[o].requests_per_hour

\* C3: an invocation whose client operation returns success=false records
\* nothing and ends with an error: the step that ends it leaves every limiter
\* and the record log as they were (as the admission check left them, when
\* the operation fails without a request).
C3_FailedSendNotRecorded ==
    [][\A p \in Procs :
          /\ \A resp \in Responses :
                (/\ Respond(p, resp)
                 /\ ~Complete(procs[p].client[1].kind, procs[p].svc, resp).raised
                 /\ ~Complete(procs[p].client[1].kind, procs[p].svc, resp).success)
                => /\ heap' = heap
                   /\ recorded' = recorded
                   /\ last'.nrec = 0
                   /\ last'.outcome = "send_failed"
          /\ \A svc \in PushOps, dev \in Devices, nowW \in Nows :
                (/\ Invoke(p, svc, dev, nowW)
                 /\ procs' = procs
                 /\ last'.client # None)
                => /\ recorded' = recorded
                   /\ last'.nrec = 0
                   /\ last'.outcome = "send_failed"
                   /\ heap'[last'.lim] =
                         IF dev \in DOMAIN limiters
                         THEN CanMakeRequest(heap[limiters[dev]], clock).lim
                         ELSE NewLimiter(dev, OptRateLimit(registered[1]),
                                         OptEnableRateLimiting(registered[1]))]_vars

\* An invocation whose request was answered with a failure ended in an error
\* while its limiter held a recorded request.
C3_Witness ==
    /\ last.pc = "ended"
    /\ last.outcome = "send_failed"
    /\ last.nhttp = 1
    /\ Len(heap[last.lim].request_times) > 0

\* C8 as stated: every invocation that reaches the admission check is admitted
\* or refused according to the limit and enabled flag the entry's options hold
\* at that moment.
C8_AdmissionFollowsCurrentOptions ==
    [][\A p \in Procs, svc \in PushOps, dev \in Devices, nowW \in Nows :
          (/\ Invoke(p, svc, dev, nowW)
           /\ registered[1] \in DOMAIN hassData
           /\ hassData[registered[1]].device_id = dev)
          => LET e == registered[1]
                 times == IF dev \in DOMAIN limiters
                          THEN heap[limiters[dev]].request_times
                          ELSE <<>>
                 admit == \/ ~OptEnableRateLimiting(e)
                          \/ Len(Prune(times, clock)) < OptRateLimit(e)
                 refused == procs' = procs /\ last'.outcome = "rate_limited"
             IN refused <=> ~admit]_vars

\* C9: on a hosted client without a plugin UUID, send_image and
\* send_merge_variables return success=false with the precondition error,
\* issue no HTTP request and leave the client without a new session; with a
\* plugin UUID they issue the request; and only set_plugin_uuid sets the UUID
\* of a client.
C9_PluginUuidPrecondition ==
    [][/\ (/\ cret'.op \in PushOps
           /\ cret'.before.kind = IMPL_STANDARD
           /\ cret'.before.plugin_uuid = None)
          => /\ cret'.state = "returned"
             /\ ~cret'.val.raised
             /\ ~cret'.val.success
             /\ cret'.val.error = "precondition"
             /\ http' = cret'.http0
             /\ client'[1] = cret'.before
       /\ (/\ cret'.op \in PushOps
           /\ cret'.before.kind = IMPL_STANDARD
           /\ cret'.before.plugin_uuid # None)
          => /\ http' = cret'.http0 + 1
             /\ client'[1].session = "open"
       /\ (/\ client # None
           /\ client' # None
           /\ cret'.op # "create_client"
           /\ client'[1].plugin_uuid # client[1].plugin_uuid)
          => cret'.op = "set_plugin_uuid"]_vars

\* A push on a hosted client returned the precondition error after the same
\* client had been used for requests.
C9_Witness ==
    /\ cret.op = "send_image"
    /\ cret.state = "returned"
    /\ cret.before.kind = IMPL_STANDARD
    /\ cret.before.plugin_uuid = None
    /\ cret.val.error = "precondition"
    /\ http > 0

\* C10 as stated: create_client returns None for an unrecognized type, and
\* every invocation for a device of such a type ends with the configuration
\* error, with no HTTP request and no record_request.
C10_UnknownTypeIsConfigError ==
    (/\ last.pc = "ended"
     /\ last.outcome \notin {"not_found", "mismatch"}
     /\ entryType[last.entry] \notin {IMPL_STANDARD, IMPL_TERMINUS, IMPL_GENERIC_BYOS})
    => /\ CreateClient(entryType[last.entry], last.dev, EntryApiKey[last.entry],
                       EntryApiEndpoint[last.entry]) = None
       /\ last.outcome = "no_client"
       /\ last.nhttp = 0
       /\ last.nrec = 0

\* C10 amended: create_client returns None for an unrecognized type; an
\* invocation for a device of such a type that the limiter admits ends with
\* the configuration error, one that the limiter refuses with the rate-limit
\* error; neither attempts an HTTP request, constructs a client or records.
C10_UnknownTypeNeverSends ==
    (/\ last.pc = "ended"
     /\ last.outcome \notin {"not_found", "mismatch"}
     /\ entryType[last.entry] \notin {IMPL_STANDARD, IMPL_TERMINUS, IMPL_GENERIC_BYOS})
    => /\ CreateClient(entryType[last.entry], last.dev, EntryApiKey[last.entry],
                       EntryApiEndpoint[last.entry]) = None
       /\ last.outcome \in {"no_client", "rate_limited"}
       /\ last.outcome = "rate_limited" <=> ~CanMakeRequest(heap[last.lim], clock).val
       /\ last.client = None
       /\ last.nhttp = 0
       /\ last.nrec = 0
       /\ RecordedOn(last.lim) = <<>>

\* An invocation for a device of an unrecognized type ended with the
\* configuration error.
C10_Witness ==
    /\ last.pc = "ended"
    /\ last.outcome = "no_client"
    /\ entryType[last.entry] = "unknown"

\* C11: an invocation whose remote call is cancelled (CancelledError raised at
\* the await) or times out (the client turns the timeout into a failure
\* result) does not call record_request: every limiter and the record log stay
\* as they were, and the invocation ends with its client's session closed.
C11_CancelledNotRecordedAndClosed ==
    [][\A p \in Procs, resp \in {[kind |-> "cancelled"], [kind |-> "exception"]} :
          Respond(p, resp)
          => /\ heap' = heap
             /\ recorded' = recorded
             /\ last'.pc = "ended"
             /\ last'.nrec = 0
             /\ last'.outcome =
                   (IF resp.kind = "cancelled" THEN "cancelled" ELSE "send_failed")
             /\ last'.client[1].session = "closed"]_vars

\* A cancelled invocation ended: its request had been issued, its session is
\* closed and nothing was recorded for it.
C11_Witness ==
    /\ last.pc = "ended"
    /\ last.outcome = "cancelled"
    /\ last.nhttp = 1
    /\ last.nrec = 0
    /\ last.client[1].session = "closed"

\* C12: an invocation that constructed a client ends, on every exit path, with
\* the client's session not open: never created or closed.
C12_SessionReleasedOnEveryExit ==
    (last.pc = "ended" /\ last.client # None)
    => /\ last.client[1].session \in {"none", "closed"}
       /\ last.outcome \in {"ok", "send_failed", "cancelled"}
       /\ last.nhttp = 1 => last.client[1].session = "closed"
       /\ last.nhttp = 0 => last.client[1].session = "none"

\* An invocation whose request was answered with a failure ended with its
\* session closed.
C12_Witness ==
    /\ last.pc = "ended"
    /\ last.outcome = "send_failed"
    /\ last.nhttp = 1
    /\ last.client[1].session = "closed"

\* C13: every client operation of every variant is total with respect to
\* remote and transport failures: no exception leaves the operation, and a
\* transport fault (timeout, connection error), a status outside 2xx, or a JSON
\* body that does not parse (where the operation reads the body) gives a
\* result with success false and an error detail.
C13_ClientOperationsTotal ==
    (/\ cret.op \in ClientOps
     /\ cret.state = "returned"
     /\ cret.issued
     /\ cret.resp.kind # "cancelled")
    => /\ ~cret.val.raised
       /\ cret.resp.kind = "exception"
             => ~cret.val.success /\ cret.val.error # ""
       /\ (cret.resp.kind = "response" /\ cret.resp.status \notin {200, 201})
             => ~cret.val.success /\ cret.val.error # ""
       /\ (/\ cret.resp.kind = "response"
           /\ cret.resp.json_ct
           /\ ~cret.resp.body_ok
           /\ cret.op \in PushOps \cup {"get_device_status"})
             => ~cret.val.success /\ cret.val.error # ""

\* A push on a self-hosted client got a 2xx answer whose JSON body does not
\* parse, and returned a failure result.
C13_Witness ==
    /\ cret.op = "send_merge_variables"
    /\ cret.state = "returned"
    /\ cret.issued
    /\ client[1].kind = IMPL_GENERIC_BYOS
    /\ cret.resp.kind = "response"
    /\ cret.resp.status = 201
    /\ cret.resp.json_ct
    /\ ~cret.resp.body_ok
    /\ ~cret.val.raised
    /\ ~cret.val.success

\* C14: an invocation whose entry has no stored config, or whose device_id is
\* not the stored one, ends at once with the not-found / mismatch error: the
\* registry and every limiter are untouched, no client is constructed, no
\* request is issued and nothing is recorded.
C14_UnresolvedFailsFirst ==
    [][\A p \in Procs, svc \in PushOps, dev \in Devices, nowW \in Nows :
          (/\ Invoke(p, svc, dev, nowW)
           /\ \/ registered[1] \notin DOMAIN hassData
              \/ hassData[registered[1]].device_id # dev)
          => /\ limiters' = limiters
             /\ heap' = heap
             /\ recorded' = recorded
             /\ clock' = clock
             /\ procs' = procs
             /\ last'.pc = "ended"
             /\ last'.outcome = (IF registered[1] \notin DOMAIN hassData
                                 THEN "not_found" ELSE "mismatch")
             /\ last'.lim = 0
             /\ last'.client = None
             /\ last'.nhttp = 0
             /\ last'.nrec = 0]_vars

\* A call for a device other than the configured one ended with the mismatch
\* error, and the registry holds no limiter for the supplied id.
C14_Witness ==
    /\ last.pc = "ended"
    /\ last.outcome = "mismatch"
    /\ last.dev \notin DOMAIN limiters
    /\ last.client = None

\* C15: the steps of an invocation are ordered resolve, admission check, client
\* construction, remote call, record, and the first deciding step ends it: an
\* invocation that the limiter refuses ends with the rate-limit error carrying
\* get_wait_time(), with no client, no request and no record (whatever the
\* implementation type); an admitted one never ends as rate limited; a client
\* exists only after admission, a record only after an answered request.
C15_StepsOrderedRefusalFirst ==
    [][\A p \in Procs, svc \in PushOps, dev \in Devices, nowW \in Nows :
          (/\ Invoke(p, svc, dev, nowW)
           /\ registered[1] \in DOMAIN hassData
           /\ hassData[registered[1]].device_id = dev)
          => LET e == registered[1]
                 l0 == IF dev \in DOMAIN limiters
                       THEN heap[limiters[dev]]
                       ELSE NewLimiter(dev, OptRateLimit(e), OptEnableRateLimiting(e))
                 c == CanMakeRequest(l0, clock)
             IN /\ ~c.val
                   => /\ procs' = procs
                      /\ last'.outcome = "rate_limited"
                      /\ last'.wait = GetWaitTime(c.lim, nowW, nowW).val
                      /\ last'.client = None
                      /\ last'.nhttp = 0
                      /\ last'.nrec = 0
                      /\ recorded' = recorded
                /\ c.val
                   => \/ procs' # procs
                      \/ last'.outcome \in {"no_client", "send_failed"}
                /\ (procs' = procs /\ last'.client # None) => c.val
                /\ (procs' = procs /\ last'.outcome = "no_client")
                   => last'.nhttp = 0 /\ last'.nrec = 0 /\ recorded' = recorded]_vars

\* An invocation was refused with a positive wait: no client, no request.
C15_Witness ==
    /\ last.pc = "ended"
    /\ last.outcome = "rate_limited"
    /\ last.wait > 0
    /\ last.client = None
    /\ last.nhttp = 0

\* C16: a second get_remaining_requests() directly after a first (same clock,
\* nothing in between) returns the value the first returned and leaves the
\* limiter, its history included, exactly as the first left it.
C16_RemainingIdempotent ==
    [][\A o \in Objs :
          (/\ ret'.op = "get_remaining_requests"
           /\ LGetRemainingRequests(o))
          => LET again == GetRemainingRequests(heap'[o], clock')
             IN /\ again.val = ret'.val
                /\ again.lim = heap'[o]]_vars

\* get_remaining_requests() returned on an enabled limiter after pruning part
\* of a history of which something remains.
C16_Witness ==
    /\ ret.op = "get_remaining_requests"
    /\ heap[ret.obj].enabled
    /\ Len(heap[ret.obj].request_times) > 0
    /\ Len(RecordedOn(ret.obj)) > Len(heap[ret.obj].request_times)
    /\ heap[ret.obj].requests_per_hour > Len(heap[ret.obj].request_times)

\* C17: a limiter with limit 0 and enabled refuses at every instant from now
\* on and with every history, and every invocation that reaches the admission
\* check of such a limiter (existing, or created by the invocation from
\* options with limit 0) ends as rate limited without waiting on the network.
C17_ZeroLimitAlwaysRefuses ==
    [][/\ \A o \in 1..Len(heap') :
             (heap'[o].enabled /\ heap'[o].requests_per_hour = 0)
             => \A t \in clock'..(MaxClock + Hour),
                   times \in UNION {[1..n -> 0..MaxClock] : n \in 0..MaxRecords} :
                   ~CanMakeRequest([heap'[o] EXCEPT !.request_times = times], t).val
       /\ \A p \in Procs, svc \in PushOps, dev \in Devices, nowW \in Nows :
             (/\ Invoke(p, svc, dev, nowW)
              /\ registered[1] \in DOMAIN hassData
              /\ hassData[registered[1]].device_id = dev)
             => LET e == registered[1]
                    l0 == IF dev \in DOMAIN limiters
                          THEN heap[limiters[dev]]
                          ELSE NewLimiter(dev, OptRateLimit(e),
                                          OptEnableRateLimiting(e))
                IN (l0.enabled /\ l0.requests_per_hour = 0)
                   => /\ procs' = procs
                      /\ last'.outcome = "rate_limited"
                      /\ last'.nhttp = 0
                      /\ recorded' = recorded]_vars

\* More than an hour after the start, an invocation for a device whose limiter
\* has limit 0 and is enabled was refused as rate limited.
C17_Witness ==
    /\ last.pc = "ended"
    /\ last.outcome = "rate_limited"
    /\ heap[last.lim].enabled
    /\ heap[last.lim].requests_per_hour = 0
    /\ clock > Hour

\* C18 as stated: for every client variant, a push that is answered with a
\* successful status (200) and a response without a JSON content type returns
\* success=true, the body counting as an empty payload.
C18_NonJsonSuccessIsEmptyPayload ==
    (/\ cret.op \in PushOps
     /\ cret.state = "returned"
     /\ cret.issued
     /\ cret.resp.kind = "response"
     /\ cret.resp.status = 200
     /\ ~cret.resp.json_ct)
    => /\ ~cret.val.raised
       /\ cret.val.success

\* C19: a step that is an operation on device A's limiter (can_make_request,
\* record_request, get_remaining_requests, update_limiter for A) or a step of
\* a service invocation for A leaves every other registered device B with the
\* same limiter object, and that object's limit, enabled flag and history
\* unchanged.
C19_DevicesIndependent ==
    [][\A A \in Devices :
          (\/ /\ ret'.op = ret.op
              /\ \E p \in Procs, svc \in PushOps, nowW \in Nows :
                    Invoke(p, svc, A, nowW)
           \/ \E p \in Procs, resp \in Responses :
                 /\ ret'.op = ret.op
                 /\ procs[p].pc = "awaiting"
                 /\ procs[p].dev = A
                 /\ Respond(p, resp)
           \/ /\ A \in DOMAIN limiters
              /\ \/ ret'.op = "can_make_request" /\ LCanMakeRequest(limiters[A])
                 \/ ret'.op = "record_request" /\ LRecordRequest(limiters[A])
                 \/ /\ ret'.op = "get_remaining_requests"
                    /\ LGetRemainingRequests(limiters[A])
           \/ /\ ret'.op = "update_limiter"
              /\ \E rph \in OptLimits, en \in OptBools : LUpdateLimiter(A, rph, en))
          => \A B \in DOMAIN limiters \ {A} :
                /\ B \in DOMAIN limiters'
                /\ limiters'[B] = limiters[B]
                /\ A \in DOMAIN limiters' => limiters'[A] # limiters[B]
                /\ heap'[limiters[B]] = heap[limiters[B]]]_vars

\* Both devices have a limiter with a recorded request, and the invocation
\* that ended last was a successful one for the second device.
C19_Witness ==
    /\ last.pc = "ended"
    /\ last.outcome = "ok"
    /\ last.dev = "d2"
    /\ DOMAIN limiters = Devices
    /\ Len(heap[limiters["d1"]].request_times) = 1
    /\ Len(heap[limiters["d2"]].request_times) = 1

\* C20 as stated: whenever an enabled limiter refuses and its (pruned) history
\* is non-empty, get_reset_time() is the earliest instant of admission if
\* nothing more is recorded: can_make_request() refuses at every instant
\* before it and admits at it.
C20_ResetTimeIsEarliestAdmission ==
    \A o \in Objs :
        LET c == CanMakeRequest(heap[o], clock)
        IN (heap[o].enabled /\ ~c.val /\ Len(c.lim.request_times) > 0)
           => LET reset_time == GetResetTime(c.lim)[1]
              IN /\ \A t \in clock..(reset_time - 1) : ~CanMakeRequest(c.lim, t).val
                 /\ CanMakeRequest(c.lim, reset_time).val

\* C21: get_wait_time() is 0 when can_make_request() admits; otherwise it is
\* the time from the second clock reading to get_reset_time(), floored at 0
\* (0 when there is no reset time). It is never negative, wherever the two
\* clock readings lie: equal, the second later, or either one earlier than
\* the recorded timestamps.
C21_WaitTimeNeverNegative ==
    /\ ret.op = "get_wait_time" => ret.val >= 0
    /\ \A o \in Objs, now1 \in 0..MaxClock, now2 \in 0..(MaxClock + Hour + 1) :
          LET c == CanMakeRequest(heap[o], now1)
              w == GetWaitTime(heap[o], now1, now2)
              reset_time == GetResetTime(c.lim)
          IN /\ w.val >= 0
             /\ c.val => w.val = 0
             /\ (~c.val /\ reset_time # None) => w.val = Max0(reset_time[1] - now2)
             /\ (~c.val /\ reset_time = None) => w.val = 0

\* get_wait_time() returned 0 on an enabled limiter that refused at the first
\* clock reading: the second reading had reached the reset time.
C21_Witness ==
    /\ ret.op = "get_wait_time"
    /\ ret.val = 0
    /\ heap[ret.obj].enabled
    /\ heap[ret.obj].requests_per_hour >= 1
    /\ Len(heap[ret.obj].request_times) >= heap[ret.obj].requests_per_hour
    /\ GetResetTime(heap[ret.obj])[1] = clock

\* C22 as stated: directly after can_make_request(), record_request(),
\* get_remaining_requests() or get_reset_time() returns, on an enabled or a
\* disabled limiter, the history holds no timestamp that is one hour or more
\* older than the time of the call.
C22_PurgedBeforeEveryAccess ==
    [][\A o \in Objs :
          (\/ ret'.op = "can_make_request" /\ LCanMakeRequest(o)
           \/ ret'.op = "record_request" /\ LRecordRequest(o)
           \/ ret'.op = "get_remaining_requests" /\ LGetRemainingRequests(o)
           \/ ret'.op = "get_reset_time" /\ LGetResetTime(o))
          => \A i \in 1..Len(heap'[o].request_times) :
                heap'[o].request_times[i] > clock - Hour]_<<clock, heap, ret.op>>

\* C23 as stated: on the same limiter state at the same instant,
\* can_make_request() and get_remaining_requests() retain the same entries,
\* and get_reset_time() computes its result from those same entries.
C23_PruningSameForAllQueries ==
    \A o \in Objs :
        LET kept == CanMakeRequest(heap[o], clock).lim.request_times
        IN /\ GetRemainingRequests(heap[o], clock).lim.request_times = kept
           /\ GetResetTime(heap[o])
                 = GetResetTime([heap[o] EXCEPT !.request_times = kept])

\* C24: can_make_request() appends nothing: every timestamp occurs in the
\* history after the call at most as often as before, only timestamps one hour
\* old or older disappear, limit, enabled and last_request_time are unchanged,
\* and the remaining quota at that instant is not reduced by the call.
C24_CanMakeRequestIsQuery ==
    [][\A o \in Objs :
          (ret'.op = "can_make_request" /\ LCanMakeRequest(o))
          => /\ heap'[o].device_id = heap[o].device_id
             /\ heap'[o].requests_per_hour = heap[o].requests_per_hour
             /\ heap'[o].enabled = heap[o].enabled
             /\ heap'[o].last_request_time = heap[o].last_request_time
             /\ \A t \in 0..MaxClock :
                   LET before == Len(SelectSeq(heap[o].request_times,
                                               LAMBDA x : x = t))
                       after == Len(SelectSeq(heap'[o].request_times,
                                              LAMBDA x : x = t))
                   IN /\ after <= before
                      /\ after < before => t <= clock - Hour
             /\ GetRemainingRequests(heap'[o], clock).val
                   >= GetRemainingRequests(heap[o], clock).val
             /\ recorded' = recorded]_vars

\* can_make_request() admitted on an enabled limiter after pruning part of its
\* history; what remains is one entry, and nothing was appended.
C24_Witness ==
    /\ ret.op = "can_make_request"
    /\ ret.val
    /\ heap[ret.obj].enabled
    /\ Len(heap[ret.obj].request_times) = 1
    /\ Len(RecordedOn(ret.obj)) = 2

\* C25: update_limiter() with an unregistered device id changes nothing and
\* registers nothing; with a registered id it sets exactly the fields that were
\* supplied and leaves the other field, the history, last_request_time and
\* every other device's limiter as they were.
C25_UpdateLimiterOnlySupplied ==
    /\ \A d \in Devices, rph \in OptLimits, en \in OptBools :
          LET h2 == UpdateLimiter(heap, limiters, d, rph, en)
          IN /\ d \notin DOMAIN limiters => h2 = heap
             /\ d \in DOMAIN limiters =>
                   LET before == heap[limiters[d]]
                       after == h2[limiters[d]]
                   IN /\ Len(h2) = Len(heap)
                      /\ \A o \in Objs : o # limiters[d] => h2[o] = heap[o]
                      /\ after.requests_per_hour
                            = (IF rph = None THEN before.requests_per_hour ELSE rph[1])
                      /\ after.enabled
                            = (IF en = None THEN before.enabled ELSE en[1])
                      /\ after.request_times = before.request_times
                      /\ after.last_request_time = before.last_request_time
                      /\ after.device_id = before.device_id
    /\ \A d \in DOMAIN limiters : limiters[d] \in Objs

\* update_limiter() was just called for d2, which has no limiter and got none,
\* after an earlier update_limiter() disabled d1's limiter and kept its history.
C25_Witness ==
    /\ ret.op = "update_limiter"
    /\ ret.dev = "d2"
    /\ DOMAIN limiters = {"d1"}
    /\ Len(heap) = 1
    /\ ~heap[limiters["d1"]].enabled
    /\ heap[limiters["d1"]].requests_per_hour = DefaultRateLimit
    /\ Len(heap[limiters["d1"]].request_times) >= 1

C28_CreateClientPureMapping ==
    /\ \A t \in {IMPL_STANDARD, IMPL_TERMINUS, IMPL_GENERIC_BYOS},
          d \in Devices, k \in ApiKeys, ep \in ApiEndpoints :
          LET made == CreateClient(t, d, k, ep)
          IN /\ made # None
             /\ made[1].kind = t
             /\ made[1].device_id = d
             /\ made[1].api_key = k
             /\ made[1].api_endpoint = ep
             /\ made[1].session = "none"
             /\ made[1].plugin_uuid = None
    /\ cret.op = "create_client"
          => /\ http = 0
             /\ client = CreateClient(cret.type, cret.device_id, cret.api_key,
                                      cret.api_endpoint)
             /\ client # None => /\ client[1].session = "none"
                                 /\ client[1].plugin_uuid = None
                                 /\ client[1].api_endpoint = cret.api_endpoint

\* create_client("standard", ...) was called with an endpoint other than the
\* hosted default and returned a hosted client carrying that endpoint.
C28_Witness ==
    /\ cret.op = "create_client"
    /\ cret.type = IMPL_STANDARD
    /\ cret.api_endpoint # DefaultEndpoint
    /\ client # None
    /\ client[1].kind = IMPL_STANDARD
    /\ client[1].api_endpoint = cret.api_endpoint
    /\ client[1].session = "none"
    /\ client[1].plugin_uuid = None
    /\ http = 0

\* C29: with a fixed limit N, rate limiting enabled and at most MaxProcs
\* invocations for the device in flight at the same time, the records within
\* the trailing hour never exceed N + MaxProcs - 1, and together with the
\* invocations in flight never exceed it either.
C29_BoundedOvershoot ==
    \A o \in Objs :
        heap[o].enabled
        => /\ RecordedInWindow(o, clock)
                 <= heap[o].requests_per_hour + MaxProcs - 1
           /\ Cardinality(Awaiting) >= 1
                 => RecordedInWindow(o, clock) + Cardinality(Awaiting)
                       <= heap[o].requests_per_hour + MaxProcs - 1

\* Two invocations were admitted together under limit 1 and both recorded:
\* two records lie within the trailing hour.
C29_Witness ==
    /\ Len(heap) = 1
    /\ heap[1].enabled
    /\ heap[1].requests_per_hour = 1
    /\ MaxProcs >= 2
    /\ RecordedInWindow(1, clock) = heap[1].requests_per_hour + MaxProcs - 1

\* C30: for an entry of the hosted type no invocation succeeds: no invocation
\* is ever waiting for a response, none ends with success, one that passes
\* admission ends with the send failure having issued no HTTP request, created
\* no session and recorded nothing, and every limiter's history stays empty.
C30_HostedNeverSucceeds ==
    (\A e \in MainEntries : entryType[e] = IMPL_STANDARD)
    => /\ Awaiting = {}
       /\ NumRecorded = 0
       /\ \A o \in Objs : /\ heap[o].request_times = <<>>
                          /\ heap[o].last_request_time = None
       /\ last.pc = "ended"
             => /\ last.outcome \in {"not_found", "mismatch", "rate_limited",
                                     "send_failed"}
                /\ last.nhttp = 0
                /\ last.nrec = 0
                /\ last.outcome \notin {"not_found", "mismatch", "rate_limited"}
                      => /\ last.outcome = "send_failed"
                         /\ last.client # None
                         /\ last.client[1].kind = IMPL_STANDARD
                         /\ last.client[1].plugin_uuid = None
                         /\ last.client[1].session = "none"

\* An invocation for a hosted device was admitted by an enabled limiter with a
\* positive limit and ended with the send failure without a request.
C30_Witness ==
    /\ entryType["e1"] = IMPL_STANDARD
    /\ last.pc = "ended"
    /\ last.outcome = "send_failed"
    /\ last.nhttp = 0
    /\ last.client # None
    /\ last.client[1].plugin_uuid = None
    /\ heap[last.lim].enabled
    /\ heap[last.lim].requests_per_hour >= 1
    /\ heap[last.lim].request_times = <<>>

\* C31: every async_setup_entry leaves its own entry's handlers registered, and
\* a service call is resolved against that entry alone: a call naming the
\* device of the entry set up last passes device resolution, a call naming any
\* other device (the device of an entry set up earlier included) ends with the
\* mismatch error before the limiter is looked up: no limiter is created or
\* pruned, no request is issued and nothing is recorded.
C31_LastSetupEntryServesCalls ==
    [][/\ \A e \in Entries : SetupEntry(e) => registered' = Some(e)
       /\ \A p \in Procs, dev \in Devices, nowW \in Nows :
             (ret'.op = ret.op /\ Invoke(p, "send_image", dev, nowW))
             => IF dev = EntryDevice[registered[1]]
                THEN \/ procs' # procs
                     \/ last'.outcome \notin {"not_found", "mismatch"}
                ELSE /\ procs' = procs
                     /\ last'.outcome = "mismatch"
                     /\ last'.dev = dev
                     /\ last'.lim = 0
                     /\ last'.client = None
                     /\ last'.nhttp = 0
                     /\ last'.nrec = 0
                     /\ heap' = heap
                     /\ limiters' = limiters
                     /\ recorded' = recorded]_vars

\* Both entries are set up, e2 last; a call naming e1's device ended with the
\* mismatch error while e1's config is stored, and d1 has no limiter.
C31_Witness ==
    /\ DOMAIN hassData = Entries
    /\ registered = Some("e2")
    /\ last.pc = "ended"
    /\ last.dev = EntryDevice["e1"]
    /\ last.outcome = "mismatch"
    /\ last.nhttp = 0
    /\ EntryDevice["e1"] \notin DOMAIN limiters

\* C32: no step removes a device from the limiter registry or rebinds it to
\* another limiter, and every registered limiter carries its key as device_id;
\* async_unload_entry removes the entry's stored config and async_setup_entry
\* stores it, and neither touches a limiter or its history; an invocation for
\* a device that has a limiter is refused exactly when that limiter, with the
\* history it holds (recorded before an unload included), is at its limit.
C32_LimitersOutliveEntries ==
    [][/\ \A d \in DOMAIN limiters :
             /\ d \in DOMAIN limiters'
             /\ limiters'[d] = limiters[d]
       /\ \A d \in DOMAIN limiters' : heap'[limiters'[d]].device_id = d
       /\ \A e \in MainEntries :
             UnloadEntry(e) => /\ e \notin DOMAIN hassData'
                               /\ heap' = heap
                               /\ limiters' = limiters
                               /\ recorded' = recorded
       /\ \A e \in MainEntries :
             SetupEntry(e) => /\ e \in DOMAIN hassData'
                              /\ heap' = heap
                              /\ limiters' = limiters
                              /\ recorded' = recorded
       /\ \A p \in Procs, svc \in PushOps, dev \in Devices, nowW \in Nows :
             (/\ Invoke(p, svc, dev, nowW)
              /\ registered[1] \in DOMAIN hassData
              /\ hassData[registered[1]].device_id = dev
              /\ dev \in DOMAIN limiters)
             => LET refused == procs' = procs /\ last'.outcome = "rate_limited"
                IN refused <=> ~CanMakeRequest(heap[limiters[dev]], clock).val]_vars

\* The entry was unloaded (a call found no config) and set up again, and the
\* invocation now in flight was admitted by the device's limiter, which still
\* holds the request recorded before the entry was set up again.
C32_Witness ==
    /\ last.pc = "ended"
    /\ last.outcome = "not_found"
    /\ "e1" \in DOMAIN hassData
    /\ Awaiting # {}
    /\ "d1" \in DOMAIN limiters
    /\ heap[limiters["d1"]].enabled
    /\ Len(heap[limiters["d1"]].request_times) >= 1
    /\ NumRecorded >= 1

\* C33: for an enabled limiter whose clock does not run backwards and does not
\* advance during the call, when can_make_request() is false get_wait_time()
\* is greater than 0 and at most one hour if the history that
\* can_make_request() retained is non-empty, and is 0 if it is empty, which
\* happens only with limit 0; an invocation refused in that state ends with
\* the rate-limit error carrying that wait.
C33_WaitRangeOnRefusal ==
    [][/\ \A o \in Objs, now \in clock..MaxClock :
             LET c == CanMakeRequest(heap[o], now)
                 w == GetWaitTime(heap[o], now, now)
             IN (heap[o].enabled /\ ~c.val)
                => IF Len(c.lim.request_times) > 0
                   THEN w.val > 0 /\ w.val <= Hour
                   ELSE w.val = 0 /\ heap[o].requests_per_hour = 0
       /\ \A p \in Procs, svc \in PushOps, dev \in Devices :
             (/\ Invoke(p, svc, dev, clock)
              /\ procs' = procs
              /\ last'.outcome = "rate_limited")
             => LET l == heap'[last'.lim]
                IN /\ l.enabled
                   /\ IF Len(l.request_times) > 0
                      THEN last'.wait > 0 /\ last'.wait <= Hour
                      ELSE last'.wait = 0 /\ l.requests_per_hour = 0]_vars

\* An invocation was refused by an enabled limiter with limit 0 and an empty
\* history, and its rate-limit error reports a wait of 0.
C33_Witness ==
    /\ last.pc = "ended"
    /\ last.outcome = "rate_limited"
    /\ last.wait = 0
    /\ heap[last.lim].enabled
    /\ heap[last.lim].requests_per_hour = 0
    /\ heap[last.lim].request_times = <<>>

\* C34: on a disabled limiter record_request() appends the time of the call,
\* and no step removes an entry from a disabled limiter's history;
\* update_limiter(enabled=True) keeps the history, and an enabled limiter
\* admits exactly when fewer than its limit of the requests recorded while it
\* was disabled lie within the last hour, so one enabled with at least that
\* many refuses at once.
C34_DisabledRecordsCountOnReenable ==
    [][/\ \A o \in Objs :
             /\ (~heap[o].enabled /\ ret'.op = "record_request" /\ LRecordRequest(o))
                => heap'[o].request_times = Append(heap[o].request_times, clock)
             /\ ~heap[o].enabled
                => /\ Len(heap'[o].request_times) >= Len(heap[o].request_times)
                   /\ SubSeq(heap'[o].request_times, 1, Len(heap[o].request_times))
                         = heap[o].request_times
             /\ (~heap[o].enabled /\ heap'[o].enabled)
                => /\ ret'.op = "update_limiter"
                   /\ heap'[o].request_times = heap[o].request_times
                   /\ CanMakeRequest(heap'[o], clock).val
                         <=> RecordedInWindow(o, clock) < heap'[o].requests_per_hour
             /\ heap[o].enabled
                => (CanMakeRequest(heap[o], clock).val
                       <=> RecordedInWindow(o, clock) < heap[o].requests_per_hour)
      ]_<<clock, heap, ret.op>>

\* A limiter that was created disabled is enabled, holds as many timestamps
\* from the last hour as its limit, all recorded while it was disabled, and
\* has just refused admission.
C34_Witness ==
    /\ ret.op = "can_make_request"
    /\ ~ret.val
    /\ heap[ret.obj].enabled
    /\ heap[ret.obj].requests_per_hour >= 1
    /\ Len(heap[ret.obj].request_times) >= heap[ret.obj].requests_per_hour
    /\ RecordedInWindow(ret.obj, clock) >= heap[ret.obj].requests_per_hour

====
